---- MODULE Spec2Model ----
(***************************************************************************)
(* Model of the sprite-sheet tools of the repository:                      *)
(*   tools/icon_calculator.py  icon number -> grid position, sheet, pixels *)
(*   tools/validate_sheet.py   SpriteSheetValidator                        *)
(* The tools are independent command-line scripts, so each has its own     *)
(* specification over the shared variable tuple; the variables of the tool *)
(* that is not running stay at their idle values.                          *)
(***************************************************************************)
EXTENDS Integers, Sequences, FiniteSets, TLC

VARIABLES
    icon_number,   \* calculator: the argument of the call
    called,        \* calculator: which function was called ("none" before)
    info,          \* calculator: the dictionary the call returned
    sheet_type,    \* validator: self.sheet_type
    image,         \* validator: self.image, as [size |-> <<w, h>>, mode |-> m]
    errors,        \* validator: self.errors
    warnings,      \* validator: self.warnings
    vpc,           \* validator: the last step of validate() that has run
    calls,         \* validator: the methods validate() has called, in order
    checked,       \* validator: the calls of _is_sprite_empty, in order, as
                   \* [cell |-> the sprite tested, empty |-> the value returned]
    empty_cells,   \* validator: the sprites check_sprites has put on its
                   \* list empty_cells, in order (EmptyCellLabel is the entry)
    result,        \* validator: <<>>, or <<b>> once validate() returned b
    rows_arg,      \* generator: the argument rows
    template,      \* generator: the image a create_*_template call has made
    tool,          \* command line: the script that is run
    argv,          \* command line: the arguments after the script's name
    path,          \* command line: what the input path names on disk
    cpc,           \* command line: the position of main()
    exit_code,     \* command line: <<>>, or <<n>> once the process ended
    exception,     \* command line: the exception that left the call, if any
    reported,      \* command line: the error messages printed
    attempted,     \* batch_prepare: indices of the files handed to prepare_icon
    prepared_files,\* batch_prepare: indices of the files prepared
    icon_info,     \* batch_prepare: the tracking rows
    preparer,      \* IconPreparer: its issues, warnings and fixes_applied
    saved,         \* prepare_icon: the images img.save has written, in order
    lua_file,      \* lookup table: the text of Pokemon.lua, as tokens
    before,        \* lookup table: the text before add_custom_icon ran
    icon_key,      \* add_custom_icon: argument
    normal_asset_id, \* add_custom_icon: argument
    shiny_asset_id,  \* add_custom_icon: argument, <<>> for None
    pokemon_name,  \* add_custom_icon: argument, as tokens
    response,      \* add_custom_icon: the answer to "Overwrite? (y/n)"
    apc,           \* lookup table: the position of the run
    add_result,    \* add_custom_icon: <<>>, or <<b>> once it returned b
    normal_icons,  \* parse_existing_icons: first dictionary returned
    shiny_icons,   \* parse_existing_icons: second dictionary returned
    preferred_start, \* find_next_available_slot: argument
    slot,          \* find_next_available_slot: <<>>, or <<s>> once returned
    icon_list,     \* batch_calculate: argument
    results,       \* the list of result dictionaries that is exported
    csv_file,      \* export_to_csv: the lines written to the file
    xpc            \* export: "start", "calculated", "exported", or the
                   \* name of the exception that left export_to_csv

calcVars == <<icon_number, called, info>>
valVars == <<sheet_type, image, errors, warnings, vpc,
             calls, checked, empty_cells, result>>
genVars == <<rows_arg, template>>
cliVars == <<tool, argv, path, cpc, exit_code, exception, reported>>
batchVars == <<attempted, prepared_files, icon_info, preparer, saved>>
vars == <<icon_number, called, info, sheet_type, image, errors, warnings, vpc,
          calls, checked, empty_cells, result, rows_arg, template,
          tool, argv, path, cpc, exit_code, exception, reported,
          attempted, prepared_files, icon_info, preparer, saved,
          lua_file, before, icon_key, normal_asset_id, shiny_asset_id,
          pokemon_name, response, apc, add_result, normal_icons, shiny_icons,
          preferred_start, slot, icon_list, results, csv_file, xpc>>
exportVars == <<icon_list, results, csv_file, xpc>>
luaVars == <<lua_file, before, icon_key, normal_asset_id, shiny_asset_id,
             pokemon_name, response, apc, add_result, normal_icons,
             shiny_icons, preferred_start, slot>>
\* the variables of the other tools
notCalcVars == <<valVars, genVars, cliVars, batchVars, luaVars, exportVars>>
notValVars == <<calcVars, genVars, cliVars, batchVars, luaVars, exportVars>>
notGenVars == <<calcVars, valVars, cliVars, batchVars, luaVars, exportVars>>
notLuaVars == <<calcVars, valVars, genVars, cliVars, batchVars, exportVars>>
notExportVars == <<calcVars, valVars, genVars, cliVars, batchVars, luaVars>>

(***************************************************************************)
(* Bounds of the model.                                                    *)
(***************************************************************************)
\* icon numbers range over -NegIndex .. MaxIndex
NegIndex == 45
MaxIndex == 1900

IconNumbers == (0 - NegIndex)..MaxIndex

\* image widths lie within SizeSlack pixels of a sheet width, image heights
\* are 1..MaxHeight or within SizeSlack pixels of the 25 rows of a full sheet
SizeSlack == 1
MaxHeight == 64
\* templates are generated with 1..MaxRows rows
MaxRows == 40
\* a directory given to batch_prepare holds 0..MaxFiles PNG files
MaxFiles == 2
\* a block of the lookup table holds 0..MaxEntries entries before the add
MaxEntries == 2
\* batch_calculate is given 0..MaxList icons
MaxList == 2

Widths == {w + d : w \in {540, 880, 1680}, d \in (0 - SizeSlack)..SizeSlack}
Heights == (1..MaxHeight) \cup {750 + d : d \in (0 - SizeSlack)..SizeSlack}
Modes == {"RGBA", "RGB", "LA", "P"}
\* the modes whose pixels carry an alpha value
AlphaModes == {"RGBA", "LA"}
\* What is drawn on an image: nothing ("transparent"), the first normal
\* sprite only ("first_sprite", 40x30 opaque pixels at the origin), a half
\* transparent patch that ends inside cells ("patch", 100x45 pixels of alpha
\* 128 at the origin), or every pixel opaque ("opaque").  An image without
\* alpha channel has only opaque pixels.
Paints == {"transparent", "first_sprite", "patch", "opaque"}
Images == {im \in [size : Widths \X Heights, mode : Modes, paint : Paints] :
              im.mode \notin AlphaModes => im.paint = "opaque"}
SheetTypes == {"regular", "egg", "other"}

(***************************************************************************)
(* icon_calculator.py                                                      *)
(***************************************************************************)

\* dict.get(key, default)
DictGet(d, key, default) == IF key \in DOMAIN d THEN d[key] ELSE default

\* mutant: the entry of the unassigned sixth sheet is missing from the table
sprite_sheets_no6 ==
    (1 :> "17134745575") @@ (2 :> "17134749969") @@ (3 :> "17134753859") @@
    (4 :> "17134757872") @@ (5 :> "17134761227")

sprite_sheets ==
    (1 :> "17134745575") @@ (2 :> "17134749969") @@ (3 :> "17134753859") @@
    (4 :> "17134757872") @@ (5 :> "17134761227") @@ (6 :> "0")

\* column = icon_number % 21 ; row = icon_number // 21
\* (Python's % and // floor, as TLA+'s % and \div do)
grid_position(icon_number_) ==
    [column |-> icon_number_ % 21, row |-> icon_number_ \div 21]

\* mutant: the last test reads row where the code reads adjusted_row
sheet_address_rawrow(column, row) ==
    LET image_index2 == IF column > 10 THEN 1 + 1 ELSE 1
        adjusted_column == IF column > 10 THEN column - 11 ELSE column
        image_index3 == IF row > 24 THEN image_index2 + 2 ELSE image_index2
        adjusted_row3 == IF row > 24 THEN row - 25 ELSE row
        image_index == IF row > 32 THEN image_index3 + 2 ELSE image_index3
        adjusted_row == IF row > 32 THEN adjusted_row3 - 33 ELSE adjusted_row3
    IN  [image_index |-> image_index,
         adjusted_column |-> adjusted_column,
         adjusted_row |-> adjusted_row]

\* mutant: "image_index = 2" for "image_index += 2" in the last step
sheet_address_set4(column, row) ==
    LET image_index2 == IF column > 10 THEN 1 + 1 ELSE 1
        adjusted_column == IF column > 10 THEN column - 11 ELSE column
        image_index3 == IF row > 24 THEN image_index2 + 2 ELSE image_index2
        adjusted_row3 == IF row > 24 THEN row - 25 ELSE row
        image_index == IF adjusted_row3 > 32 THEN 2 ELSE image_index3
        adjusted_row == IF adjusted_row3 > 32
                        THEN adjusted_row3 - 33 ELSE adjusted_row3
    IN  [image_index |-> image_index,
         adjusted_column |-> adjusted_column,
         adjusted_row |-> adjusted_row]

\* mutant: "image_index = 3" for "image_index += 2" in the row > 24 step
sheet_address_set3(column, row) ==
    LET image_index2 == IF column > 10 THEN 1 + 1 ELSE 1
        adjusted_column == IF column > 10 THEN column - 11 ELSE column
        image_index3 == IF row > 24 THEN 3 ELSE image_index2
        adjusted_row3 == IF row > 24 THEN row - 25 ELSE row
        image_index == IF adjusted_row3 > 32
                       THEN image_index3 + 2 ELSE image_index3
        adjusted_row == IF adjusted_row3 > 32
                        THEN adjusted_row3 - 33 ELSE adjusted_row3
    IN  [image_index |-> image_index,
         adjusted_column |-> adjusted_column,
         adjusted_row |-> adjusted_row]

\* mutant: the row > 24 step forgets "image_index += 2"
sheet_address_same_sheet(column, row) ==
    LET image_index2 == IF column > 10 THEN 1 + 1 ELSE 1
        adjusted_column == IF column > 10 THEN column - 11 ELSE column
        image_index3 == image_index2
        adjusted_row3 == IF row > 24 THEN row - 25 ELSE row
        image_index == IF adjusted_row3 > 32
                       THEN image_index3 + 2 ELSE image_index3
        adjusted_row == IF adjusted_row3 > 32
                        THEN adjusted_row3 - 33 ELSE adjusted_row3
    IN  [image_index |-> image_index,
         adjusted_column |-> adjusted_column,
         adjusted_row |-> adjusted_row]

\* mutant: "image_index += 3" for "image_index += 2" in the last step
sheet_address_add3(column, row) ==
    LET image_index2 == IF column > 10 THEN 1 + 1 ELSE 1
        adjusted_column == IF column > 10 THEN column - 11 ELSE column
        image_index3 == IF row > 24 THEN image_index2 + 2 ELSE image_index2
        adjusted_row3 == IF row > 24 THEN row - 25 ELSE row
        image_index == IF adjusted_row3 > 32
                       THEN image_index3 + 3 ELSE image_index3
        adjusted_row == IF adjusted_row3 > 32
                        THEN adjusted_row3 - 33 ELSE adjusted_row3
    IN  [image_index |-> image_index,
         adjusted_column |-> adjusted_column,
         adjusted_row |-> adjusted_row]

\* "Determine which sprite sheet": the three tests run in order, the third
\* on the adjusted_row the second has left.
sheet_address(column, row) ==
    LET \* image_index = 1; if column > 10: image_index += 1
        image_index2 == IF column > 10 THEN 1 + 1 ELSE 1
        adjusted_column == IF column > 10 THEN column - 11 ELSE column
        \* if row > 24: image_index += 2
        image_index3 == IF row > 24 THEN image_index2 + 2 ELSE image_index2
        adjusted_row3 == IF row > 24 THEN row - 25 ELSE row
        \* if adjusted_row > 32: image_index += 2
        image_index == IF adjusted_row3 > 32
                       THEN image_index3 + 2 ELSE image_index3
        adjusted_row == IF adjusted_row3 > 32
                        THEN adjusted_row3 - 33 ELSE adjusted_row3
    IN  [image_index |-> image_index,
         adjusted_column |-> adjusted_column,
         adjusted_row |-> adjusted_row]

\* mutant: x_shiny is offset by the cell height 30 instead of 40
pixel_positions_shiny30(column, row) ==
    [x_normal |-> column * 80, x_shiny |-> column * 80 + 30, y |-> row * 30]

\* mutant: the sprite width 40 is used as the cell width
pixel_positions_cell40(column, row) ==
    [x_normal |-> column * 40, x_shiny |-> column * 40 + 40, y |-> row * 30]

\* "Calculate pixel positions", from the raw column and row
pixel_positions(column, row) ==
    [x_normal |-> column * 80, x_shiny |-> column * 80 + 40, y |-> row * 30]

calculate_regular_icon(icon_number_) ==
    LET pos == grid_position(icon_number_)
        sheet == sheet_address(pos.column, pos.row)
        px == pixel_positions(pos.column, pos.row)
    IN  [type |-> "regular",
         column |-> pos.column,
         row |-> pos.row,
         sheet_index |-> sheet.image_index,
         sheet_asset_id |-> DictGet(sprite_sheets, sheet.image_index, "Unknown"),
         x_normal |-> px.x_normal,
         x_shiny |-> px.x_shiny,
         y |-> px.y,
         adjusted_column |-> sheet.adjusted_column,
         adjusted_row |-> sheet.adjusted_row]

\* mutant: the shift of 9 is applied in the wrong direction (1451 + 9)
egg_index_of_off1460(icon_number_) ==
    IF icon_number_ > 1872 THEN icon_number_ - 1460 ELSE icon_number_ - 1451

\* mutant: both regimes use the offset 1451
egg_index_of_off1451(icon_number_) ==
    IF icon_number_ > 1872 THEN icon_number_ - 1451 ELSE icon_number_ - 1451

\* "Determine egg sprite index"
egg_index_of(icon_number_) ==
    IF icon_number_ > 1872 THEN icon_number_ - 1442 ELSE icon_number_ - 1451

calculate_egg_icon(icon_number_) ==
    LET egg_index == egg_index_of(icon_number_)
        column == egg_index % 18
        row == egg_index \div 18
        x == column * 30
        y == row * 32
    IN  [type |-> "egg",
         egg_index |-> egg_index,
         column |-> column,
         row |-> row,
         sheet_asset_id |-> "13039987315",
         x |-> x,
         y |-> y,
         sprite_size |-> <<30, 32>>]

\* mutant: "<" for "<=" in the domain split
calculate_position_lt(icon_number_) ==
    IF icon_number_ < 1450
    THEN calculate_regular_icon(icon_number_)
    ELSE calculate_egg_icon(icon_number_)

calculate_position(icon_number_) ==
    IF icon_number_ <= 1450
    THEN calculate_regular_icon(icon_number_)
    ELSE calculate_egg_icon(icon_number_)

NoInfo == [type |-> "none"]

CalcIdle == /\ icon_number = 0
            /\ called = "none"
            /\ info = NoInfo

ValidatorIdle == /\ sheet_type = "regular"
                 /\ image = [size |-> <<0, 0>>, mode |-> "RGBA",
                              paint |-> "transparent"]
                 /\ errors = <<>>
                 /\ warnings = <<>>
                 /\ vpc = "idle"
                 /\ calls = <<>>
                 /\ checked = <<>>
                 /\ empty_cells = <<>>
                 /\ result = <<>>

GeneratorIdle == /\ rows_arg = 0
                 /\ template = [type |-> "none"]

\* IconPreparer(): no issue, no warning and no fix yet
NewPreparer == [issues |-> <<>>, warnings |-> <<>>, fixes_applied |-> <<>>]

CommandLineIdle == /\ tool = "none"
                   /\ argv = <<>>
                   /\ path = [kind |-> "missing"]
                   /\ cpc = "idle"
                   /\ exit_code = <<>>
                   /\ exception = <<>>
                   /\ reported = <<>>
                   /\ attempted = <<>>
                   /\ prepared_files = <<>>
                   /\ icon_info = <<>>
                   /\ preparer = NewPreparer
                   /\ saved = <<>>

LookupTableIdle == /\ lua_file = <<>>
                   /\ before = <<>>
                   /\ icon_key = 0
                   /\ normal_asset_id = 0
                   /\ shiny_asset_id = <<>>
                   /\ pokemon_name = <<>>
                   /\ response = "n"
                   /\ apc = "idle"
                   /\ add_result = <<>>
                   /\ normal_icons = <<>>
                   /\ shiny_icons = <<>>
                   /\ preferred_start = 0
                   /\ slot = <<>>

ExportIdle == /\ icon_list = <<>>
              /\ results = <<>>
              /\ csv_file = <<>>
              /\ xpc = "idle"

\* One run of the calculator: the icon number is the input, one of the three
\* functions is applied to it.
InitCalculator ==
    /\ icon_number \in IconNumbers
    /\ called = "none"
    /\ info = NoInfo
    /\ ValidatorIdle
    /\ GeneratorIdle
    /\ CommandLineIdle
    /\ LookupTableIdle
    /\ ExportIdle

CalculatePosition ==
    /\ called = "none"
    /\ called' = "calculate_position"
    /\ info' = calculate_position(icon_number)
    /\ UNCHANGED <<icon_number, notCalcVars>>

CalculateRegularIcon ==
    /\ called = "none"
    /\ called' = "calculate_regular_icon"
    /\ info' = calculate_regular_icon(icon_number)
    /\ UNCHANGED <<icon_number, notCalcVars>>

CalculateEggIcon ==
    /\ called = "none"
    /\ called' = "calculate_egg_icon"
    /\ info' = calculate_egg_icon(icon_number)
    /\ UNCHANGED <<icon_number, notCalcVars>>

NextCalculator ==
    \/ CalculatePosition
    \/ CalculateRegularIcon
    \/ CalculateEggIcon

SpecCalculator == InitCalculator /\ [][NextCalculator]_vars

(***************************************************************************)
(* icon_calculator.py: batch_calculate and export_to_csv                   *)
(***************************************************************************)

\* the items of an icon_list: a number, <<n>>, or a tuple (number, name)
ExportNumbers == {0, 1450, 1451, 1873}
ExportItems == {<<n>> : n \in ExportNumbers}
               \cup {<<n, "Celebi">> : n \in ExportNumbers}
IconLists == UNION {[1..n -> ExportItems] : n \in 0..MaxList}

\* info = calculate_position(icon_num); info['icon_number'] = icon_num;
\* info['name'] = name, the name being f"Pokemon {icon_num}" for a bare
\* number
batch_calculate(list) ==
    [i \in DOMAIN list |->
        LET icon_num == list[i][1]
            name == IF Len(list[i]) = 2 THEN <<list[i][2]>>
                    ELSE <<"Pokemon ", icon_num>>
        IN  ("icon_number" :> icon_num) @@ ("name" :> name)
            @@ calculate_position(icon_num)]

\* the results list of the interactive "batch" command
collect_positions(list) ==
    [i \in DOMAIN list |-> calculate_position(list[i][1])]

regular_fieldnames ==
    <<"icon_number", "name", "column", "row", "sheet_index",
      "sheet_asset_id", "x_normal", "x_shiny", "y">>
egg_fieldnames ==
    <<"icon_number", "name", "egg_index", "column", "row",
      "sheet_asset_id", "x", "y">>

\* csv.DictWriter(f, fieldnames).writerow(row): ValueError for a key that
\* is no field name (extrasaction is 'raise'), '' for a missing key
row_accepted(fieldnames, row) ==
    DOMAIN row \subseteq {fieldnames[k] : k \in DOMAIN fieldnames}
csv_row(fieldnames, row) ==
    [k \in DOMAIN fieldnames |->
        IF fieldnames[k] \in DOMAIN row THEN <<row[fieldnames[k]]>>
        ELSE <<"">>]

\* export_to_csv(results): how it ends and the lines it has written
export_to_csv(res) ==
    IF res = <<>> THEN [outcome |-> "exported", file |-> <<>>]
    ELSE
        LET fieldnames == IF res[1]["type"] = "regular"
                          THEN regular_fieldnames ELSE egg_fieldnames
            header == [k \in DOMAIN fieldnames |-> <<fieldnames[k]>>]
            refused == {i \in DOMAIN res : ~row_accepted(fieldnames, res[i])}
            n == IF refused = {} THEN Len(res)
                 ELSE (CHOOSE i \in refused : \A j \in refused : i <= j) - 1
        IN  [outcome |-> IF refused = {} THEN "exported" ELSE "ValueError",
             file |-> <<header>>
                      \o [i \in 1..n |-> csv_row(fieldnames, res[i])]]

InitExport ==
    /\ icon_list \in IconLists
    /\ results = <<>>
    /\ csv_file = <<>>
    /\ xpc = "start"
    /\ CalcIdle
    /\ ValidatorIdle
    /\ GeneratorIdle
    /\ CommandLineIdle
    /\ LookupTableIdle

BatchCalculate ==
    /\ xpc = "start"
    /\ results' = batch_calculate(icon_list)
    /\ xpc' = "calculated"
    /\ UNCHANGED <<icon_list, csv_file, notExportVars>>

\* the interactive command "batch": results.append(calculate_position(n))
CollectPositions ==
    /\ xpc = "start"
    /\ results' = collect_positions(icon_list)
    /\ xpc' = "calculated"
    /\ UNCHANGED <<icon_list, csv_file, notExportVars>>

ExportToCsv ==
    /\ xpc = "calculated"
    /\ LET r == export_to_csv(results)
       IN  /\ xpc' = r.outcome
           /\ csv_file' = r.file
    /\ UNCHANGED <<icon_list, results, notExportVars>>

NextExport ==
    \/ BatchCalculate
    \/ CollectPositions
    \/ ExportToCsv

SpecExport == InitExport /\ [][NextExport]_vars

(***************************************************************************)
(* validate_sheet.py                                                       *)
(***************************************************************************)

\* The f-strings of the messages, as the tuple of their parts.
WidthErrorRegular(width) ==
    <<"Width ", width, "px is invalid. Should be 1680px (full) or 880px (split)">>
WidthErrorEgg(width) ==
    <<"Width ", width, "px is invalid. Should be 540px (18 columns)">>
HeightError(height, cell) ==
    <<"Height ", height, "px is not a multiple of ", cell, "px">>

\* mutant: only the full sheet width is accepted for a regular sheet
dimension_errors_full_only(type, width, height) ==
    IF type = "regular"
    THEN (IF width # 1680 THEN <<WidthErrorRegular(width)>> ELSE <<>>)
         \o (IF height % 30 # 0 THEN <<HeightError(height, 30)>> ELSE <<>>)
    ELSE IF type = "egg"
    THEN (IF width # 540 THEN <<WidthErrorEgg(width)>> ELSE <<>>)
         \o (IF height % 32 # 0 THEN <<HeightError(height, 32)>> ELSE <<>>)
    ELSE <<>>

\* what check_dimensions appends to self.errors, in order
dimension_errors(type, width, height) ==
    IF type = "regular"
    THEN (IF width \notin {1680, 880}
          THEN <<WidthErrorRegular(width)>> ELSE <<>>)
         \o (IF height % 30 # 0 THEN <<HeightError(height, 30)>> ELSE <<>>)
    ELSE IF type = "egg"
    THEN (IF width # 540 THEN <<WidthErrorEgg(width)>> ELSE <<>>)
         \o (IF height % 32 # 0 THEN <<HeightError(height, 32)>> ELSE <<>>)
    ELSE <<>>

\* The pixels of an image with alpha > 0 form the rectangle
\* [0, w) x [0, h), clipped to the image; a is their alpha value.
PaintedRect(im) ==
    LET W == im.size[1]
        H == im.size[2]
        Min(a, b) == IF a < b THEN a ELSE b
    IN  IF im.mode \notin AlphaModes \/ im.paint = "opaque"
        THEN [w |-> W, h |-> H, a |-> 255]
        ELSE IF im.paint = "first_sprite"
        THEN [w |-> Min(40, W), h |-> Min(30, H), a |-> 255]
        ELSE IF im.paint = "patch"
        THEN [w |-> Min(100, W), h |-> Min(45, H), a |-> 128]
        ELSE [w |-> 0, h |-> 0, a |-> 0]

\* some pixel of the box (x, y, x + width, y + height) has alpha > 0
HasVisiblePixel(im, x, y, width, height) ==
    LET p == PaintedRect(im)
    IN  p.a > 0 /\ x < p.w /\ y < p.h /\ width > 0 /\ height > 0

\* every pixel of the box has alpha 255
AllOpaque(im, x, y, width, height) ==
    LET p == PaintedRect(im)
    IN  p.a = 255 /\ x + width <= p.w /\ y + height <= p.h

\* mutant: the alpha test is made whatever the mode of the image
is_sprite_empty_any_mode(im, x, y, width, height) ==
    ~HasVisiblePixel(im, x, y, width, height)

\* _is_sprite_empty: the crop keeps the mode of the image; only an RGBA crop
\* is looked at, any other mode is never empty.  (The second test,
\* "no pixel with alpha > 0", holds exactly when the first does.)
is_sprite_empty(im, x, y, width, height) ==
    IF im.mode = "RGBA"
    THEN ~HasVisiblePixel(im, x, y, width, height)
    ELSE FALSE

\* mutant: the last row is left out (range(rows - 1))
sprite_cells_short(type, width, height) ==
    IF type = "regular"
    THEN LET columns == width \div 80
             rows == (height \div 30) - 1
         IN  [i \in 1..(rows * columns * 2) |->
                LET cell == (i - 1) \div 2
                    row == cell \div columns
                    col == cell % columns
                IN  IF (i - 1) % 2 = 0
                    THEN [kind |-> "Normal ", num |-> row * 21 + col,
                          x |-> col * 80, y |-> row * 30, w |-> 40, h |-> 30]
                    ELSE [kind |-> "Shiny ", num |-> row * 21 + col,
                          x |-> col * 80 + 40, y |-> row * 30,
                          w |-> 40, h |-> 30]]
    ELSE IF type = "egg"
    THEN LET columns == width \div 30
             rows == (height \div 32) - 1
         IN  [i \in 1..(rows * columns) |->
                LET row == (i - 1) \div columns
                    col == (i - 1) % columns
                IN  [kind |-> "Egg ", num |-> row * 18 + col + 1451,
                     x |-> col * 30, y |-> row * 32, w |-> 30, h |-> 32]]
    ELSE <<>>

\* The sprites check_sprites visits, in the order of its loops ("for row",
\* "for col", normal before shiny), each with the box it passes to
\* _is_sprite_empty and the number its label would carry.
sprite_cells(type, width, height) ==
    IF type = "regular"
    THEN LET columns == width \div 80
             rows == height \div 30
         IN  [i \in 1..(rows * columns * 2) |->
                LET cell == (i - 1) \div 2
                    row == cell \div columns
                    col == cell % columns
                IN  IF (i - 1) % 2 = 0
                    THEN [kind |-> "Normal ", num |-> row * 21 + col,
                          x |-> col * 80, y |-> row * 30, w |-> 40, h |-> 30]
                    ELSE [kind |-> "Shiny ", num |-> row * 21 + col,
                          x |-> col * 80 + 40, y |-> row * 30,
                          w |-> 40, h |-> 30]]
    ELSE IF type = "egg"
    THEN LET columns == width \div 30
             rows == height \div 32
         IN  [i \in 1..(rows * columns) |->
                LET row == (i - 1) \div columns
                    col == (i - 1) % columns
                IN  [kind |-> "Egg ", num |-> row * 18 + col + 1451,
                     x |-> col * 30, y |-> row * 32, w |-> 30, h |-> 32]]
    ELSE <<>>

\* f"{kind}{num} at ({x}, {y})"
EmptyCellLabel(c) == <<c.kind, c.num, " at (", c.x, ", ", c.y, ")">>

\* f"Many empty cells ({n}) - is this correct?"
ManyEmptyWarning(n) == <<"Many empty cells (", n, ") - is this correct?">>

\* mutant: an error found by check_dimensions ends the run at once
validate_next_stop_on_error(pc, errs) ==
    IF pc = "constructed" THEN "check_dimensions"
    ELSE IF pc = "check_dimensions" /\ errs # <<>> THEN "return"
    ELSE IF pc = "check_dimensions" THEN "check_transparency"
    ELSE IF pc = "check_transparency" THEN "check_mode"
    ELSE IF pc = "check_mode" THEN "check_sprites"
    ELSE IF pc = "check_sprites" THEN "print_results"
    ELSE IF pc = "print_results" THEN "return"
    ELSE "none"

\* The statement of validate() that follows the one that has run; the
\* errors found so far play no part in it.
validate_next(pc, errs) ==
    IF pc = "constructed" THEN "check_dimensions"
    ELSE IF pc = "check_dimensions" THEN "check_transparency"
    ELSE IF pc = "check_transparency" THEN "check_mode"
    ELSE IF pc = "check_mode" THEN "check_sprites"
    ELSE IF pc = "check_sprites" THEN "print_results"
    ELSE IF pc = "print_results" THEN "return"
    ELSE "none"

\* mutant: a sheet with warnings does not pass
validate_result_no_warnings(errs, warns) == Len(errs) = 0 /\ Len(warns) = 0

\* return len(self.errors) == 0
validate_result(errs, warns) == Len(errs) = 0

\* SpriteSheetValidator(image_path, sheet_type) on an image that opens
InitValidator ==
    /\ sheet_type \in SheetTypes
    /\ image \in Images
    /\ errors = <<>>
    /\ warnings = <<>>
    /\ vpc = "constructed"
    /\ calls = <<>>
    /\ checked = <<>>
    /\ empty_cells = <<>>
    /\ result = <<>>
    /\ CalcIdle
    /\ GeneratorIdle
    /\ CommandLineIdle
    /\ LookupTableIdle
    /\ ExportIdle

\* validate() runs the checks in this order
check_dimensions ==
    /\ validate_next(vpc, errors) = "check_dimensions"
    /\ vpc' = "check_dimensions"
    /\ calls' = Append(calls, "check_dimensions")
    /\ errors' = errors \o dimension_errors(sheet_type, image.size[1],
                                            image.size[2])
    /\ UNCHANGED <<sheet_type, image, warnings, checked, empty_cells,
                   result, notValVars>>

check_transparency ==
    /\ validate_next(vpc, errors) = "check_transparency"
    /\ vpc' = "check_transparency"
    /\ calls' = Append(calls, "check_transparency")
    /\ warnings' = IF image.mode \notin {"RGBA", "LA", "PA"}
                   THEN Append(warnings,
                        <<"Image has no alpha channel - background won't be transparent">>)
                   ELSE warnings
    /\ UNCHANGED <<sheet_type, image, errors, checked, empty_cells,
                   result, notValVars>>

check_mode ==
    /\ validate_next(vpc, errors) = "check_mode"
    /\ vpc' = "check_mode"
    /\ calls' = Append(calls, "check_mode")
    /\ warnings' = IF image.mode # "RGBA"
                   THEN Append(warnings,
                        <<"Image mode is ", image.mode,
                          ", recommend RGBA for best compatibility">>)
                   ELSE warnings
    /\ UNCHANGED <<sheet_type, image, errors, checked, empty_cells,
                   result, notValVars>>

check_sprites ==
    /\ validate_next(vpc, errors) = "check_sprites"
    /\ vpc' = "check_sprites"
    /\ calls' = Append(calls, "check_sprites")
    /\ LET cells == sprite_cells(sheet_type, image.size[1], image.size[2])
           IsEmpty(c) == is_sprite_empty(image, c.x, c.y, c.w, c.h)
           found == SelectSeq(cells, IsEmpty)
           \* egg sheets: "elif empty_cells" after
           \* "len(empty_cells) < columns * rows * 0.5"
           many == /\ sheet_type = "egg"
                   /\ Len(found) > 0
                   /\ ~(2 * Len(found) < Len(cells))
       IN  /\ checked' = [i \in DOMAIN cells |->
                            [cell |-> cells[i], empty |-> IsEmpty(cells[i])]]
           /\ empty_cells' = found
           /\ warnings' = IF many
                          THEN Append(warnings, ManyEmptyWarning(Len(found)))
                          ELSE warnings
    /\ UNCHANGED <<sheet_type, image, errors, result, notValVars>>

\* print_results only prints
print_results ==
    /\ validate_next(vpc, errors) = "print_results"
    /\ vpc' = "print_results"
    /\ calls' = Append(calls, "print_results")
    /\ UNCHANGED <<sheet_type, image, errors, warnings, checked, empty_cells,
                   result, notValVars>>

validate_return ==
    /\ validate_next(vpc, errors) = "return"
    /\ vpc' = "returned"
    /\ result' = <<validate_result(errors, warnings)>>
    /\ UNCHANGED <<sheet_type, image, errors, warnings, calls, checked,
                   empty_cells, notValVars>>

NextValidator ==
    \/ check_dimensions
    \/ check_transparency
    \/ check_mode
    \/ check_sprites
    \/ print_results
    \/ validate_return

SpecValidator == InitValidator /\ [][NextValidator]_vars

(***************************************************************************)
(* generate_template.py                                                    *)
(***************************************************************************)

\* mutant: the rows of the regular template get the height of an egg cell
create_regular_template_h32(rows) ==
    [type |-> "regular",
     size |-> <<1680, rows * 32>>,
     mode |-> "RGBA",
     row_numbers |-> [r \in 1..rows |-> (r - 1) * 21]]

\* The image create_regular_template saves: its size and mode, and the icon
\* number "#n" it writes at the start of each row (row_numbers[r + 1] is the
\* number of row r).
create_regular_template(rows) ==
    [type |-> "regular",
     size |-> <<1680, rows * 30>>,
     mode |-> "RGBA",
     row_numbers |-> [r \in 1..rows |-> (r - 1) * 21]]

\* The image create_egg_template saves, with the egg number of each row.
create_egg_template(rows) ==
    [type |-> "egg",
     size |-> <<540, rows * 32>>,
     mode |-> "RGBA",
     row_numbers |-> [r \in 1..rows |-> (r - 1) * 18 + 1451]]

\* generate_template.py regular|egg <rows>
InitGenerator ==
    /\ rows_arg \in 1..MaxRows
    /\ template = [type |-> "none"]
    /\ CalcIdle
    /\ ValidatorIdle
    /\ CommandLineIdle
    /\ LookupTableIdle
    /\ ExportIdle

CreateRegularTemplate ==
    /\ template.type = "none"
    /\ template' = create_regular_template(rows_arg)
    /\ UNCHANGED <<rows_arg, notGenVars>>

CreateEggTemplate ==
    /\ template.type = "none"
    /\ template' = create_egg_template(rows_arg)
    /\ UNCHANGED <<rows_arg, notGenVars>>

NextGenerator ==
    \/ CreateRegularTemplate
    \/ CreateEggTemplate

SpecGenerator == InitGenerator /\ [][NextGenerator]_vars

(***************************************************************************)
(* prepare_custom_icon.py: IconPreparer                                    *)
(***************************************************************************)

IconModes == {"RGBA", "RGB", "LA"}
IconSizes == {<<80, 60>>, <<100, 100>>, <<32, 24>>, <<2000, 1500>>}

\* Where the sprite of an input image lies: its pixels reach every edge of
\* the image ("full"), or they keep a quarter of the image free on every
\* side ("inner").  For an image without transparent pixels the sprite is
\* what _make_background_transparent leaves visible.
Sprites == {"full", "inner"}

\* What an input file of the preparer can be: an image (png: its name ends
\* with .png; opaque: every alpha value is 255), or a file Image.open
\* cannot load.
IconImages ==
    {f \in [kind : {"image"}, png : BOOLEAN, mode : IconModes,
            size : IconSizes, opaque : BOOLEAN, sprite : Sprites] :
        f.mode = "RGB" => f.opaque}
IconFiles == IconImages \cup {[kind |-> "corrupt", png |-> b] : b \in BOOLEAN}

AddIssue(p, msg) == [p EXCEPT !.issues = Append(@, msg)]
AddWarning(p, msg) == [p EXCEPT !.warnings = Append(@, msg)]

IconPreparer_check_format(p, f) ==
    IF ~f.png THEN AddIssue(p, <<"File is not PNG format">>) ELSE p

IconPreparer_check_mode(p, f) ==
    IF f.mode # "RGBA" /\ f.mode \in {"RGB", "P", "L"}
    THEN AddWarning(p, <<"Color mode is", f.mode, "should be RGBA">>)
    ELSE p

IconPreparer_check_transparency(p, f) ==
    IF f.mode \notin {"RGBA", "LA", "PA"}
    THEN AddWarning(p, <<"No alpha channel", f.mode>>)
    ELSE IF f.mode = "RGBA" /\ f.opaque
    THEN AddWarning(p, <<"Has alpha channel but no transparent pixels">>)
    ELSE p

\* abs(width / height - 80 / 60) > 0.2, in integers
AspectDiffers(width, height) ==
    LET d == 15 * width - 20 * height
    IN  (IF d < 0 THEN 0 - d ELSE d) > 3 * height

IconPreparer_check_dimensions(p, f) ==
    LET width == f.size[1]
        height == f.size[2]
        q == IF width < 40 \/ height < 30
             THEN AddWarning(p, <<"Size", width, height,
                                  "is smaller than minimum 40x30">>)
             ELSE IF width = 80 /\ height = 60 THEN p
             ELSE IF width < 80 \/ height < 60
             THEN AddWarning(p, <<"Size", width, height,
                                  "is smaller than recommended", 80, 60>>)
             ELSE IF width > 1024 \/ height > 1024
             THEN AddIssue(p, <<"Size", width, height,
                                "exceeds Roblox limit of 1024x1024">>)
             ELSE p
    IN  IF AspectDiffers(width, height)
        THEN AddWarning(q, <<"Aspect ratio differs from target">>)
        ELSE q

\* The number of components of the colour _detect_background_color returns:
\* an int sample becomes a triple, a sample of more than three components is
\* cut to three, any other sample is kept as it is.
detect_background_color(f) ==
    LET sample == CASE f.mode = "RGBA" -> 4
                    [] f.mode = "RGB" -> 3
                    [] f.mode = "LA" -> 2
                    [] OTHER -> 1
    IN  IF sample = 1 THEN 3 ELSE IF sample > 3 THEN 3 ELSE sample

\* _make_background_transparent reads bg_color[0], bg_color[1] and
\* bg_color[2] for the first pixel: IndexError on a shorter colour.
make_background_transparent_raises(bg_color) == bg_color < 3

\* _apply_fixes raises when its background removal does
apply_fixes_raises(f) ==
    IF f.mode # "RGBA"
    THEN make_background_transparent_raises(detect_background_color(f))
    ELSE f.opaque
         /\ make_background_transparent_raises(detect_background_color(f))

\* the configuration IconPreparer() starts with
target_width == 80
target_height == 60
min_padding == 2

AddFix(p, msg) == [p EXCEPT !.fixes_applied = Append(@, msg)]

\* An image in memory is its size and the box getbbox() returns, as
\* <<left, upper, right, lower>>, or <<>> for None.
NoImage == [size |-> <<0, 0>>, bbox |-> <<>>]

\* the box of the sprite of the file f
sprite_box(f) ==
    LET w == f.size[1]
        h == f.size[2]
    IN  IF f.sprite = "full" THEN <<0, 0, w, h>>
        ELSE <<w \div 4, h \div 4, w - w \div 4, h - h \div 4>>

\* Image.open(f) with the conversion of _apply_fixes done
loaded(f) == [size |-> f.size, bbox |-> sprite_box(f)]

\* round_aspect of Image.thumbnail: of the candidates down and up the one
\* whose key is smaller, and never below 1.  The keys are compared exactly;
\* the library compares floats, which differs only where the two keys tie
\* (a free side that falls on a half), and no size drawn here does.
round_aspect(down, up, key_down, key_up) ==
    LET n == IF key_down <= key_up THEN down ELSE up
    IN  IF n < 1 THEN 1 ELSE n

Distance(a, b) == IF a < b THEN b - a ELSE a - b
CeilDiv(a, b) == IF a % b = 0 THEN a \div b ELSE a \div b + 1

\* the width Image.thumbnail gives an image of w x h that is made y high:
\* y * w / h rounded down or up to whichever keeps the aspect ratio better
thumbnail_width(w, h, y, down, up) ==
    round_aspect(down, up, Distance(w * y, down * h), Distance(w * y, up * h))

\* the height Image.thumbnail gives an image of w x h that is made x wide
thumbnail_height(w, h, x, down, up) ==
    round_aspect(down, up,
                 IF down = 0 THEN 0 ELSE Distance(w * down, x * h) * up,
                 IF down = 0 THEN 0 ELSE Distance(w * up, x * h) * down)

\* The size img.thumbnail(max) leaves an image of the size `size` with: the
\* size itself when it fits, else the largest size within max of the same
\* aspect ratio.
thumbnail(size, max) ==
    IF max[1] >= size[1] /\ max[2] >= size[2] THEN size
    ELSE IF max[1] * size[2] >= max[2] * size[1]
    THEN <<thumbnail_width(size[1], size[2], max[2],
                           (max[2] * size[1]) \div size[2],
                           CeilDiv(max[2] * size[1], size[2])), max[2]>>
    ELSE <<max[1], thumbnail_height(size[1], size[2], max[1],
                                    (max[1] * size[2]) \div size[1],
                                    CeilDiv(max[1] * size[2], size[1]))>>

\* the box of a sprite after its image went from the size `from` to the
\* size `to`: every pixel the sprite covers in part belongs to it
scaled(box, from, to) ==
    IF box = <<>> THEN box
    ELSE <<(box[1] * to[1]) \div from[1], (box[2] * to[2]) \div from[2],
           CeilDiv(box[3] * to[1], from[1]), CeilDiv(box[4] * to[2], from[2])>>

\* img.thumbnail(max) on the image img
thumbnailed(img, size) ==
    [size |-> size, bbox |-> scaled(img.bbox, img.size, size)]

\* the box <<l, u, r, d>> cut at the edges of a canvas of the size `size`
cut(size, l, u, r, d) ==
    IF l >= r \/ u >= d THEN <<>> ELSE <<l, u, r, d>>

\* canvas.paste(img, (x, y), img) on an empty canvas of the size `size`: the
\* sprite of img moves by (x, y) and is cut at the edges of the canvas
paste(size, img, x, y) ==
    [size |-> size,
     bbox |-> IF img.bbox = <<>> THEN <<>>
              ELSE cut(size,
                       IF img.bbox[1] + x < 0 THEN 0 ELSE img.bbox[1] + x,
                       IF img.bbox[2] + y < 0 THEN 0 ELSE img.bbox[2] + y,
                       IF img.bbox[3] + x > size[1] THEN size[1]
                       ELSE img.bbox[3] + x,
                       IF img.bbox[4] + y > size[2] THEN size[2]
                       ELSE img.bbox[4] + y)]

\* img pasted in the middle of an empty canvas of the size `size`
centred(size, img) ==
    paste(size, img, (size[1] - img.size[1]) \div 2,
          (size[2] - img.size[2]) \div 2)

\* _apply_fixes, "Convert to RGBA if needed": the background colour is the
\* colour of a pixel of the image, so pixels_changed is at least 1
convert_fixes(p, f) ==
    IF f.mode # "RGBA"
    THEN AddFix(p, "Converted to RGBA with transparency (removed background)")
    ELSE IF f.opaque THEN AddFix(p, "Removed background color")
    ELSE p

\* _apply_fixes, "Resize if needed", first part: an image over the Roblox
\* limit is scaled down to fit 1024 x 1024
limit_fixes(p, img) ==
    IF img.size[1] > 1024 \/ img.size[2] > 1024
    THEN [img |-> thumbnailed(img, thumbnail(img.size, <<1024, 1024>>)),
          preparer |-> AddFix(p, "Resized to fit Roblox limit")]
    ELSE [img |-> img, preparer |-> p]

\* _apply_fixes, "Resize if needed", second part, on the preparer p and the
\* image img: the local variables width and height are the size of img, and
\* stay so when the image is replaced by the canvas
target_fixes(p, img) ==
    IF img.size[1] < target_width \/ img.size[2] < target_height
    THEN [img |-> centred(<<target_width, target_height>>, img),
          preparer |-> AddFix(p, "Centered on canvas"),
          width |-> img.size[1], height |-> img.size[2]]
    ELSE IF img.size[1] > target_width \/ img.size[2] > target_height
    THEN [img |-> centred(<<target_width, target_height>>,
                          thumbnailed(img,
                              thumbnail(img.size,
                                        <<target_width, target_height>>))),
          preparer |-> AddFix(p, "Scaled to target"),
          width |-> img.size[1], height |-> img.size[2]]
    ELSE [img |-> img, preparer |-> p,
          width |-> img.size[1], height |-> img.size[2]]

\* the second part applied to what the first part leaves
target_fixes_after(r) == target_fixes(r.preparer, r.img)

\* _apply_fixes, "Resize if needed": the image it leaves, the preparer, and
\* the values of the local variables width and height after it
resize_fixes(p, img) == target_fixes_after(limit_fixes(p, img))

\* _apply_fixes, the condition of "Add slight padding if sprite goes to
\* edges", on the current image and the local variables width and height
sprite_goes_to_edges(img, width, height) ==
    /\ img.bbox # <<>>
    /\ \/ img.bbox[1] < min_padding
       \/ img.bbox[2] < min_padding
       \/ img.bbox[3] > width - min_padding
       \/ img.bbox[4] > height - min_padding

\* the image temp of the padding step: img.crop(bbox) at the size `size`
cropped(size) == [size |-> size, bbox |-> <<0, 0, size[1], size[2]>>]

\* _apply_fixes, the body of that step: the cropped sprite, shrunk to
\* pad_size if it is larger, in the middle of a new canvas of width x height
add_padding(img, width, height) ==
    centred(<<width, height>>,
            cropped(thumbnail(<<img.bbox[3] - img.bbox[1],
                                img.bbox[4] - img.bbox[2]>>,
                              <<width - min_padding * 2,
                                height - min_padding * 2>>)))

\* _apply_fixes, "Add slight padding if sprite goes to edges", on what the
\* resize step leaves
padding_fixes(r) ==
    IF sprite_goes_to_edges(r.img, r.width, r.height)
    THEN [img |-> add_padding(r.img, r.width, r.height),
          preparer |-> AddFix(r.preparer, "Added padding")]
    ELSE [img |-> r.img, preparer |-> r.preparer]

\* _apply_fixes(img, original) of a call that does not raise: the image
\* returned and the preparer with its fixes_applied
apply_fixes(p, f) ==
    padding_fixes(resize_fixes(convert_fixes(p, f), loaded(f)))

\* prepare_icon, "Run checks"
run_checks(p, f) ==
    IconPreparer_check_dimensions(
        IconPreparer_check_transparency(
            IconPreparer_check_mode(
                IconPreparer_check_format(p, f), f), f), f)

\* prepare_icon, "Save", of the image and preparer of r
save(r, save_ok) ==
    [outcome |-> IF save_ok THEN "ok" ELSE "save_error",
     preparer |-> r.preparer, img |-> r.img]

\* prepare_icon after its checks have left the preparer q
fix_and_save(q, f, save_ok) ==
    IF q.issues = <<>> /\ q.warnings = <<>>
    THEN save([img |-> loaded(f), preparer |-> q], save_ok)
    ELSE IF apply_fixes_raises(f)
    THEN [outcome |-> "IndexError", preparer |-> q, img |-> NoImage]
    ELSE save(apply_fixes(q, f), save_ok)

\* prepare_icon(input_path, output_path, auto_fix=True) on the file f with
\* the preparer's lists p; save_ok: img.save succeeds.  outcome "ok" is the
\* return value True, "not_found", "load_error" and "save_error" are the
\* return value False, "IndexError" is the exception that leaves the call;
\* img is the image handed to img.save.
prepare_icon(p, f, save_ok) ==
    IF f.kind = "missing"
    THEN [outcome |-> "not_found", preparer |-> p, img |-> NoImage]
    ELSE IF f.kind = "corrupt"
    THEN [outcome |-> "load_error", preparer |-> p, img |-> NoImage]
    ELSE fix_and_save(run_checks(p, f), f, save_ok)

\* what prepare_icon prints for a return value False
PrepareError(outcome) ==
    CASE outcome = "not_found" -> <<"File not found">>
      [] outcome = "load_error" -> <<"Error loading image">>
      [] outcome = "save_error" -> <<"Error saving">>
      [] OTHER -> <<>>

(***************************************************************************)
(* The command lines of validate_sheet.py and prepare_custom_icon.py       *)
(***************************************************************************)

\* the sheet files given to validate_sheet.py
SheetFileHeights == {30, 32, 45}
SheetFiles == {im \in Images : im.size[2] \in SheetFileHeights}

\* the PNG files batch_prepare finds in a directory
PngFiles == {f \in IconFiles : f.png}
Directories ==
    UNION {[1..n -> PngFiles] : n \in 0..MaxFiles}

ValidateSheetRuns ==
    {<<a, p>> \in ({<<>>} \cup {<<"path">>}
                     \cup {<<"path", t>> : t \in SheetTypes})
                  \X ({[kind |-> "missing"], [kind |-> "corrupt"]}
                      \cup {[kind |-> "image", image |-> im] :
                                im \in SheetFiles}) :
        a = <<>> => p.kind = "missing"}

PrepareRuns ==
    {<<a, p>> \in {<<>>, <<"single">>, <<"batch">>, <<"interactive">>,
                   <<"other">>} \X {[kind |-> "missing"]} : TRUE}
    \cup {<<a, p>> \in {<<"single", "path">>}
                       \X ({[kind |-> "missing"]} \cup IconFiles) : TRUE}
    \cup {<<a, p>> \in {<<"batch", "path">>}
                       \X ({[kind |-> "missing"]}
                           \cup {[kind |-> "directory", png_files |-> d] :
                                     d \in Directories}) : TRUE}

\* A process is started on a command line.
InitCommandLine ==
    /\ tool \in {"validate_sheet", "prepare_custom_icon"}
    /\ \E run \in IF tool = "validate_sheet" THEN ValidateSheetRuns
                   ELSE PrepareRuns :
        /\ argv = run[1]
        /\ path = run[2]
    /\ cpc = "start"
    /\ exit_code = <<>>
    /\ exception = <<>>
    /\ reported = <<>>
    /\ attempted = <<>>
    /\ prepared_files = <<>>
    /\ icon_info = <<>>
    /\ preparer = NewPreparer
    /\ saved = <<>>
    /\ CalcIdle
    /\ ValidatorIdle
    /\ GeneratorIdle
    /\ LookupTableIdle
    /\ ExportIdle

\* sys.exit(code), or the end of main (code 0), after printing msgs
Exit(code, msgs) ==
    /\ cpc' = "exited"
    /\ exit_code' = <<code>>
    /\ reported' = reported \o msgs

\* An exception nobody catches ends the process with exit code 1.
Uncaught(name) ==
    /\ cpc' = "exited"
    /\ exit_code' = <<1>>
    /\ exception' = <<name>>

\* validate_sheet.main up to the call of validate()
ValidateSheetMain ==
    /\ tool = "validate_sheet"
    /\ cpc = "start"
    /\ LET type_arg == IF Len(argv) > 1 THEN argv[2] ELSE "regular"
       IN  IF Len(argv) < 1
           THEN /\ Exit(1, <<"Usage">>)
                /\ UNCHANGED valVars
           ELSE IF path.kind = "missing"
           THEN /\ Exit(1, <<"File not found">>)
                /\ UNCHANGED valVars
           ELSE IF type_arg \notin {"regular", "egg"}
           THEN /\ Exit(1, <<"Invalid sheet type">>)
                /\ UNCHANGED valVars
           ELSE IF path.kind = "corrupt"
           THEN /\ Exit(1, <<"Failed to open image">>)
                /\ UNCHANGED valVars
           ELSE /\ sheet_type' = type_arg
                /\ image' = path.image
                /\ vpc' = "constructed"
                /\ cpc' = "validate"
                /\ UNCHANGED <<errors, warnings, calls, checked, empty_cells,
                               result, exit_code, reported>>
    /\ UNCHANGED <<tool, argv, path, exception, calcVars, genVars, batchVars,
                   luaVars, exportVars>>

\* sys.exit(0 if success else 1)
ValidateSheetExit ==
    /\ tool = "validate_sheet"
    /\ cpc = "validate"
    /\ vpc = "returned"
    /\ Exit(IF result[1] THEN 0 ELSE 1, <<>>)
    /\ UNCHANGED <<tool, argv, path, exception, calcVars, valVars, genVars,
                   batchVars, luaVars, exportVars>>

\* prepare_custom_icon.main: the dispatch on the command
PrepareMain ==
    /\ tool = "prepare_custom_icon"
    /\ cpc = "start"
    /\ IF Len(argv) < 1 THEN Exit(1, <<"Usage">>)
       ELSE IF argv[1] = "single"
       THEN IF Len(argv) < 2 THEN Exit(1, <<"Missing input file">>)
            ELSE cpc' = "single" /\ UNCHANGED <<exit_code, reported>>
       ELSE IF argv[1] = "batch"
       THEN IF Len(argv) < 2 THEN Exit(1, <<"Missing input directory">>)
            ELSE cpc' = "batch" /\ UNCHANGED <<exit_code, reported>>
       ELSE IF argv[1] = "interactive"
       THEN \* interactive_mode: the answers name a file or a directory
            /\ cpc' \in {"single", "batch"}
            /\ UNCHANGED <<exit_code, reported>>
       ELSE Exit(1, <<"Unknown command">>)
    /\ UNCHANGED <<tool, argv, path, exception, calcVars, valVars, genVars,
                   batchVars, luaVars, exportVars>>

\* preparer.prepare_icon(input_file, output_file, auto_fix=True); its return
\* value is dropped and main ends.
PrepareSingle ==
    /\ tool = "prepare_custom_icon"
    /\ cpc = "single"
    /\ \E save_ok \in BOOLEAN :
        LET f == IF path.kind = "directory" THEN [kind |-> "corrupt",
                                                   png |-> FALSE]
                 ELSE path
            r == prepare_icon(NewPreparer, f, save_ok)
        IN  /\ preparer' = r.preparer
            /\ saved' = IF r.outcome = "ok" THEN <<r.img>> ELSE saved
            /\ IF r.outcome = "IndexError"
               THEN Uncaught("IndexError") /\ UNCHANGED reported
               ELSE Exit(0, PrepareError(r.outcome)) /\ UNCHANGED exception
    /\ UNCHANGED <<tool, argv, path, attempted, prepared_files, icon_info,
                   calcVars, valVars, genVars,
                   luaVars, exportVars>>

\* batch_prepare up to its loop
BatchPrepareStart ==
    /\ tool = "prepare_custom_icon"
    /\ cpc = "batch"
    /\ IF path.kind = "missing" THEN Exit(0, <<"Directory not found">>)
       ELSE IF path.kind # "directory" \/ path.png_files = <<>>
       THEN Exit(0, <<"No PNG files found">>)
       ELSE cpc' = "loop" /\ UNCHANGED <<exit_code, reported>>
    /\ UNCHANGED <<tool, argv, path, exception, calcVars, valVars, genVars,
                   batchVars, luaVars, exportVars>>

\* batch_prepare, "Reset for next file"
reset_keeps_issues(p) ==
    [p EXCEPT !.warnings = <<>>, !.fixes_applied = <<>>]
reset(p) ==
    [p EXCEPT !.issues = <<>>, !.warnings = <<>>, !.fixes_applied = <<>>]

\* the tracking row batch_prepare makes of the file of index i, the image
\* img read back from the output file, and the preparer p
tracking_row(i, img, p) ==
    [File |-> i,
     Dimensions |-> img.size,
     Ready |-> p.issues = <<>>,
     Notes |-> SubSeq(p.issues, 1,
                      IF Len(p.issues) < 2 THEN Len(p.issues) ELSE 2)]

\* One turn of the loop over png_files; reopen_ok: Image.open(output_file)
\* succeeds when the tracking row is made.
BatchPrepareFile ==
    /\ tool = "prepare_custom_icon"
    /\ cpc = "loop"
    /\ Len(attempted) < Len(path.png_files)
    /\ \E save_ok, reopen_ok \in BOOLEAN :
        LET i == Len(attempted) + 1
            r == prepare_icon(preparer, path.png_files[i], save_ok)
        IN  /\ attempted' = Append(attempted, i)
            /\ saved' = IF r.outcome = "ok" THEN Append(saved, r.img)
                        ELSE saved
            /\ IF r.outcome = "IndexError"
               THEN /\ Uncaught("IndexError")
                    /\ preparer' = r.preparer
                    /\ UNCHANGED <<prepared_files, icon_info, reported>>
               ELSE IF r.outcome = "ok" /\ ~reopen_ok
               THEN /\ Uncaught("OSError")
                    /\ preparer' = r.preparer
                    /\ prepared_files' = Append(prepared_files, i)
                    /\ UNCHANGED <<icon_info, reported>>
               ELSE /\ prepared_files' =
                         IF r.outcome = "ok" THEN Append(prepared_files, i)
                         ELSE prepared_files
                    /\ icon_info' =
                         IF r.outcome = "ok"
                         THEN Append(icon_info,
                                     tracking_row(i, r.img, r.preparer))
                         ELSE icon_info
                    /\ preparer' = reset(r.preparer)
                    /\ reported' = reported \o PrepareError(r.outcome)
                    /\ UNCHANGED <<cpc, exit_code, exception>>
    /\ UNCHANGED <<tool, argv, path, calcVars, valVars, genVars,
                   luaVars, exportVars>>

\* batch_prepare after its loop: preview sheet, tracking CSV, summary
BatchPrepareFinish ==
    /\ tool = "prepare_custom_icon"
    /\ cpc = "loop"
    /\ Len(attempted) = Len(path.png_files)
    /\ Exit(0, <<>>)
    /\ UNCHANGED <<tool, argv, path, exception, calcVars, valVars, genVars,
                   batchVars, luaVars, exportVars>>

NextCommandLine ==
    \/ ValidateSheetMain
    \/ check_dimensions
    \/ check_transparency
    \/ check_mode
    \/ check_sprites
    \/ print_results
    \/ validate_return
    \/ ValidateSheetExit
    \/ PrepareMain
    \/ PrepareSingle
    \/ BatchPrepareStart
    \/ BatchPrepareFile
    \/ BatchPrepareFinish

SpecCommandLine == InitCommandLine /\ [][NextCommandLine]_vars

(***************************************************************************)
(* add_custom_icon.py.  The text of Pokemon.lua is a sequence of tokens:   *)
(*   "normal{"  the text  local customNormalIcons = {                      *)
(*   "shiny{"   the text  local customShinyIcons = {                       *)
(*   "}"  a closing brace;   "nl"  a newline;   "ws"  tabs or spaces       *)
(*   "pair"  the text  [key] = 'ref',    "--"  two hyphens                 *)
(*   "word"  other text without newline, closing brace, quote or "--"      *)
(***************************************************************************)

Tok(t) == [t |-> t, key |-> 0, ref |-> <<>>, w |-> ""]
Pair(key, ref) == [t |-> "pair", key |-> key, ref |-> ref, w |-> ""]
Word(w, n) == [t |-> "word", key |-> n, ref |-> <<>>, w |-> w]

Min(S) == CHOOSE x \in S : \A y \in S : x <= y

\* the first index from..to of c whose token is of kind t, 0 if none
FirstOf(c, t, from, to) ==
    LET S == {i \in from..to : i \in DOMAIN c /\ c[i].t = t}
    IN  IF S = {} THEN 0 ELSE Min(S)

\* str.strip(): whitespace at both ends removed
RECURSIVE strip(_)
strip(c) ==
    IF c = <<>> THEN c
    ELSE IF c[1].t \in {"ws", "nl"} THEN strip(Tail(c))
    ELSE IF c[Len(c)].t \in {"ws", "nl"} THEN strip(SubSeq(c, 1, Len(c) - 1))
    ELSE c

\* re.search(r'local customXIcons = \{(.*?)\}', content, re.DOTALL): the
\* group, in a one-element sequence, or <<>> without match
search_block(content, open) ==
    LET i == FirstOf(content, open, 1, Len(content))
        j == IF i = 0 THEN 0 ELSE FirstOf(content, "}", i + 1, Len(content))
    IN  IF j = 0 THEN <<>> ELSE <<SubSeq(content, i + 1, j - 1)>>

\* re.findall(r'\[(\d+)\]\s*=\s*[\'"]([^\'"]+)[\'"].*?--(.*)', group): a
\* pair with a key of digits, then on the same line the first "--", then
\* the rest of the line
RECURSIVE findall_entries(_, _)
findall_entries(g, i) ==
    IF i > Len(g) THEN <<>>
    ELSE IF g[i].t = "pair" /\ g[i].key >= 0
    THEN LET nl == FirstOf(g, "nl", i + 1, Len(g))
             eol == IF nl = 0 THEN Len(g) + 1 ELSE nl
             dd == FirstOf(g, "--", i + 1, eol - 1)
         IN  IF dd = 0 THEN findall_entries(g, i + 1)
             ELSE <<[key |-> g[i].key, asset_id |-> g[i].ref,
                     comment |-> SubSeq(g, dd + 1, eol - 1)]>>
                  \o findall_entries(g, eol)
    ELSE findall_entries(g, i + 1)

\* for key, asset_id, comment in entries:
\*     icons[int(key)] = (asset_id, comment.strip())
icons_of(entries) ==
    [k \in {entries[i].key : i \in DOMAIN entries} |->
        LET last == CHOOSE i \in DOMAIN entries :
                        /\ entries[i].key = k
                        /\ \A j \in DOMAIN entries :
                               entries[j].key = k => j <= i
        IN  <<entries[last].asset_id, strip(entries[last].comment)>>]

\* One dictionary of parse_existing_icons
parse_block(content, open) ==
    LET m == search_block(content, open)
    IN  IF m = <<>> THEN icons_of(<<>>)
        ELSE icons_of(findall_entries(m[1], 1))

parse_existing_icons(content) ==
    <<parse_block(content, "normal{"), parse_block(content, "shiny{")>>

\* mutant: the search starts behind preferred_start
find_next_available_slot_behind(icons, start) ==
    LET RECURSIVE advance(_)
        advance(s) == IF s \in DOMAIN icons THEN advance(s + 1) ELSE s
    IN  advance(start + 1)

\* slot = preferred_start; while slot in used_slots: slot += 1
find_next_available_slot(icons, start) ==
    LET RECURSIVE advance(_)
        advance(s) == IF s \in DOMAIN icons THEN advance(s + 1) ELSE s
    IN  advance(start)

PreferredStarts == {1185, 1186, 1187, 1188}

\* f"\t\t\t[{key}] = 'rbxassetid://{asset_id}', --{comment}"
format_icon_entry(key, asset_id, comment) ==
    <<Tok("ws"), Pair(key, <<"rbxassetid://", asset_id>>), Tok("ws"),
      Tok("--")>> \o comment

\* \n\s*\} matches at j: a newline, then whitespace only, then a brace
ClosingAt(content, j) ==
    /\ content[j].t = "nl"
    /\ \E k \in (j + 1)..Len(content) :
        /\ content[k].t = "}"
        /\ \A m \in (j + 1)..(k - 1) : content[m].t \in {"ws", "nl"}

\* re.sub(r'(local customXIcons = \{.*?)(\n\s*\})', insert, content,
\*        count=1, flags=re.DOTALL) with
\* insert(match) = f"{match.group(1)}\n{new_entry}{match.group(2)}"
sub_insert(content, open, new_entry) ==
    LET i == FirstOf(content, open, 1, Len(content))
        S == IF i = 0 THEN {}
             ELSE {j \in (i + 1)..Len(content) : ClosingAt(content, j)}
    IN  IF S = {} THEN content
        ELSE SubSeq(content, 1, Min(S) - 1) \o <<Tok("nl")>> \o new_entry
             \o SubSeq(content, Min(S), Len(content))

\* input("Overwrite? (y/n): ").strip().lower()
Responses == {"y", "Y", " y ", "n", "yes", ""}
strip_lower(answer) ==
    CASE answer \in {"y", "Y", " y "} -> "y"
      [] answer = "yes" -> "yes"
      [] answer = "n" -> "n"
      [] OTHER -> ""

\* mutant: only the answer 'n' cancels
add_custom_icon_cancel_on_n(content, key, normal_id, shiny_id, name, answer) ==
    LET icons == parse_existing_icons(content)
    IN  IF key \in DOMAIN icons[1] /\ strip_lower(answer) = "n"
        THEN [result |-> FALSE, content |-> content]
        ELSE
            LET new_normal_entry == format_icon_entry(key, normal_id, name)
                c1 == sub_insert(content, "normal{", new_normal_entry)
                c2 == IF shiny_id # <<>>
                      THEN sub_insert(c1, "shiny{",
                               format_icon_entry(key, shiny_id[1], name))
                      ELSE c1
            IN  [result |-> TRUE, content |-> c2]

\* add_custom_icon: the value returned and the text of the file afterwards
add_custom_icon(content, key, normal_id, shiny_id, name, answer) ==
    LET icons == parse_existing_icons(content)
    IN  IF key \in DOMAIN icons[1] /\ strip_lower(answer) # "y"
        THEN [result |-> FALSE, content |-> content]
        ELSE
            LET new_normal_entry == format_icon_entry(key, normal_id, name)
                c1 == sub_insert(content, "normal{", new_normal_entry)
                c2 == IF shiny_id # <<>>
                      THEN sub_insert(c1, "shiny{",
                               format_icon_entry(key, shiny_id[1], name))
                      ELSE c1
            IN  [result |-> TRUE, content |-> c2]

\* The tables the runs start from.  Entry i of a block has key 1184 + 2*i.
RECURSIVE entry_lines(_, _)
entry_lines(n, id0) ==
    IF n = 0 THEN <<>>
    ELSE entry_lines(n - 1, id0)
         \o format_icon_entry(1184 + 2 * n, id0 + n, <<Word("name", n)>>)
         \o <<Tok("nl")>>

\* a block written over several lines, or an empty block written {}
Block(open, layout, n, id0) ==
    IF layout = "lines"
    THEN <<Tok(open), Tok("nl")>> \o entry_lines(n, id0)
         \o <<Tok("ws"), Tok("}"), Tok("nl")>>
    ELSE <<Tok(open), Tok("}"), Tok("nl")>>

Layouts == {<<"lines", n>> : n \in 0..MaxEntries} \cup {<<"oneline", 0>>}

\* the text after the two blocks: nothing more, or another table
Trailers ==
    {<<Word("return", 0), Tok("nl")>>,
     <<Word("local t = {", 0), Tok("nl"), Tok("ws"), Word("a = 1,", 0),
       Tok("nl"), Tok("}"), Tok("nl")>>}

LuaFiles ==
    {<<Word("local Pokemon = require(script.Parent)", 0), Tok("nl")>>
     \o Block("normal{", ln[1], ln[2], 100)
     \o Block("shiny{", ls[1], ls[2], 200) \o tr :
        ln \in Layouts, ls \in Layouts, tr \in Trailers}

Names ==
    {<<Word("Mew", 0)>>,
     <<Word("Mr.", 0), Tok("ws"), Word("Mime", 0)>>,
     <<Word("Ho", 0), Tok("--"), Word("Oh", 0)>>}

InitLookupTable ==
    /\ lua_file \in LuaFiles
    /\ before = lua_file
    /\ icon_key \in {1186, 1187}
    /\ normal_asset_id = 5
    /\ shiny_asset_id \in {<<>>, <<6>>}
    /\ pokemon_name \in Names
    /\ response \in Responses
    /\ apc = "start"
    /\ add_result = <<>>
    /\ normal_icons = <<>>
    /\ shiny_icons = <<>>
    /\ preferred_start = 1186
    /\ slot = <<>>
    /\ CalcIdle
    /\ ValidatorIdle
    /\ GeneratorIdle
    /\ CommandLineIdle
    /\ ExportIdle

AddCustomIcon ==
    /\ apc = "start"
    /\ LET r == add_custom_icon(lua_file, icon_key, normal_asset_id,
                                shiny_asset_id, pokemon_name, response)
       IN  /\ lua_file' = r.content
           /\ add_result' = <<r.result>>
    /\ apc' = "added"
    /\ UNCHANGED <<before, icon_key, normal_asset_id, shiny_asset_id,
                   pokemon_name, response, normal_icons, shiny_icons,
                   preferred_start, slot, notLuaVars>>

\* the file is read again and parsed (list_custom_icons, interactive_add)
ParseExistingIcons ==
    /\ apc = "added"
    /\ normal_icons' = parse_existing_icons(lua_file)[1]
    /\ shiny_icons' = parse_existing_icons(lua_file)[2]
    /\ apc' = "parsed"
    /\ UNCHANGED <<lua_file, before, icon_key, normal_asset_id,
                   shiny_asset_id, pokemon_name, response, add_result,
                   preferred_start, slot, notLuaVars>>

\* find_next_available_slot(normal_icons, start), start being 1186 when
\* the caller leaves it out
FindNextAvailableSlot ==
    /\ apc = "parsed"
    /\ \E start \in PreferredStarts :
        /\ preferred_start' = start
        /\ slot' = <<find_next_available_slot(normal_icons, start)>>
    /\ apc' = "found"
    /\ UNCHANGED <<lua_file, before, icon_key, normal_asset_id,
                   shiny_asset_id, pokemon_name, response, add_result,
                   normal_icons, shiny_icons, notLuaVars>>

NextLookupTable ==
    \/ AddCustomIcon
    \/ ParseExistingIcons
    \/ FindNextAvailableSlot

SpecLookupTable == InitLookupTable /\ [][NextLookupTable]_vars

(***************************************************************************)
(* Properties of the calculator (checked under SpecCalculator).            *)
(***************************************************************************)

\* the call has returned the dictionary of a regular icon in 0..1450
RegularResult ==
    /\ called \in {"calculate_position", "calculate_regular_icon"}
    /\ icon_number \in 0..1450
    /\ info.type = "regular"

\* the call has returned the dictionary of an egg icon >= 1451
EggResult ==
    /\ called \in {"calculate_position", "calculate_egg_icon"}
    /\ icon_number >= 1451
    /\ info.type = "egg"

\* C1: for every icon index i in 0..1450, calculate_position(i) is of type
\* 'regular', its column is i mod 21 and its row is i div 21, with
\* 0 <= column <= 20 and 0 <= row <= 69.
C1_RegularGridPosition ==
    (called = "calculate_position" /\ icon_number \in 0..1450) =>
        /\ info.type = "regular"
        /\ info.column = icon_number % 21
        /\ info.row = icon_number \div 21
        /\ info.column \in 0..20
        /\ info.row \in 0..69

C1_Witness ==
    /\ called = "calculate_position"
    /\ icon_number = 1450
    /\ info.type = "regular"
    /\ info.row = 69

\* The ordered rule of the sheet address, written out by the row band the
\* icon falls in: rows 0..24 add nothing, rows 25..57 add 2 and lose 25,
\* rows from 58 add 4 and lose 58; columns above 10 add 1 and lose 11.
OrderedRuleHolds ==
    LET column == icon_number % 21
        row == icon_number \div 21
        colStep == IF column > 10 THEN 1 ELSE 0
        rowStep == IF row > 24 THEN 2 ELSE 0
        lastStep == IF row > 24 /\ row - 25 > 32 THEN 2 ELSE 0
    IN  /\ info.sheet_index = 1 + colStep + rowStep + lastStep
        /\ info.adjusted_column = column - 11 * colStep
        /\ info.adjusted_row = IF lastStep = 2 THEN (row - 25) - 33
                               ELSE IF rowStep = 2 THEN row - 25
                               ELSE row

\* C2 as stated: the ordered rule gives the sheet, adjusted column and
\* adjusted row of every index in 0..1450, and index 1450 is column 16,
\* row 69, sheet 6, adjusted column 5, adjusted row 11.
C2_AsStated ==
    RegularResult =>
        /\ OrderedRuleHolds
        /\ icon_number = 1450 =>
            /\ info.column = 16
            /\ info.row = 69
            /\ info.sheet_index = 6
            /\ info.adjusted_column = 5
            /\ info.adjusted_row = 11

\* C2 (amended): the ordered rule gives the sheet, adjusted column and
\* adjusted row of every index in 0..1450, and index 1450 is column 1,
\* row 69, sheet 5, adjusted column 1, adjusted row 11.
C2_OrderedSheetRule ==
    RegularResult =>
        /\ OrderedRuleHolds
        /\ icon_number = 1450 =>
            /\ info.column = 1
            /\ info.row = 69
            /\ info.sheet_index = 5
            /\ info.adjusted_column = 1
            /\ info.adjusted_row = 11

\* row 69 is reached through both row steps
C2_Witness ==
    /\ called = "calculate_regular_icon"
    /\ icon_number = 1450
    /\ info.sheet_index = 5
    /\ info.adjusted_row = 11

\* C3: for every regular index in 0..1450 the sheet index is in 1..6, and
\* among the cells of 0..1450 a larger column in the same row, or a larger
\* row in the same column, never has a smaller sheet index.
C3_SheetRangeMonotone ==
    RegularResult =>
        /\ info.sheet_index \in 1..6
        /\ \A j \in 0..1450 :
            LET other == calculate_regular_icon(j)
            IN  /\ (other.row = info.row /\ other.column >= info.column)
                       => other.sheet_index >= info.sheet_index
                /\ (other.column = info.column /\ other.row >= info.row)
                       => other.sheet_index >= info.sheet_index

\* cell (11, 25) has crossed both thresholds that its neighbours (10, 25)
\* and (11, 24) have crossed one of
C3_Witness ==
    /\ RegularResult
    /\ icon_number = 25 * 21 + 11
    /\ info.sheet_index = 4
    /\ calculate_regular_icon(25 * 21 + 10).sheet_index = 3
    /\ calculate_regular_icon(24 * 21 + 11).sheet_index = 2

\* C4: for every row in which the cells of column 10 and column 11 are both
\* in 0..1450, the sheet index of the cell in column 11 is exactly one more
\* than that of the cell in column 10.
C4_ColumnStepIsOne ==
    (RegularResult /\ info.column = 10 /\ info.row * 21 + 11 <= 1450) =>
        calculate_regular_icon(info.row * 21 + 11).sheet_index
            = info.sheet_index + 1

C4_Witness ==
    /\ RegularResult
    /\ info.column = 10
    /\ info.row = 25
    /\ info.sheet_index = 3
    /\ calculate_regular_icon(info.row * 21 + 11).sheet_index = 4

\* C5: calculate_regular_icon returns x_normal = column*80,
\* x_shiny = x_normal + 40 and y = row*30 from the raw column and row;
\* index 0 gives column 0, row 0, sheet 1, x_normal 0, x_shiny 40, y 0.
C5_PixelPositions ==
    (called \in {"calculate_position", "calculate_regular_icon"}
        /\ info.type = "regular") =>
        /\ info.x_normal = (icon_number % 21) * 80
        /\ info.x_shiny = info.x_normal + 40
        /\ info.y = (icon_number \div 21) * 30
        /\ icon_number = 0 =>
            /\ info.column = 0
            /\ info.row = 0
            /\ info.sheet_index = 1
            /\ info.x_normal = 0
            /\ info.x_shiny = 40
            /\ info.y = 0

\* a cell whose adjusted column and row differ from the raw ones
C5_Witness ==
    /\ RegularResult
    /\ icon_number = 25 * 21 + 11
    /\ info.adjusted_column = 0
    /\ info.adjusted_row = 0
    /\ info.x_normal = 880
    /\ info.x_shiny = 920
    /\ info.y = 750

\* two w x h rectangles with top-left corners (x1, y1) and (x2, y2) share
\* no pixel
Disjoint(x1, y1, x2, y2, w, h) ==
    \/ x1 + w <= x2
    \/ x2 + w <= x1
    \/ y1 + h <= y2
    \/ y2 + h <= y1

\* C6: the normal and shiny 40x30 rectangles of a regular icon are disjoint
\* from each other and from those of every other index of 0..1450 on the
\* same sheet; the 30x32 rectangles of two distinct egg indices >= 1451 are
\* disjoint.
C6_NoOverlap ==
    /\ RegularResult =>
        /\ Disjoint(info.x_normal, info.y, info.x_shiny, info.y, 40, 30)
        /\ \A j \in 0..1450 :
            LET other == calculate_regular_icon(j)
            IN  (j # icon_number /\ other.sheet_index = info.sheet_index) =>
                    /\ Disjoint(info.x_normal, info.y,
                                other.x_normal, other.y, 40, 30)
                    /\ Disjoint(info.x_normal, info.y,
                                other.x_shiny, other.y, 40, 30)
                    /\ Disjoint(info.x_shiny, info.y,
                                other.x_normal, other.y, 40, 30)
                    /\ Disjoint(info.x_shiny, info.y,
                                other.x_shiny, other.y, 40, 30)
    /\ EggResult =>
        \A j \in 1451..MaxIndex :
            LET other == calculate_egg_icon(j)
            IN  j # icon_number =>
                    Disjoint(info.x, info.y, other.x, other.y, 30, 32)

\* icon 1 lies next to icon 0 on the same sheet: its normal rectangle
\* starts where the shiny rectangle of icon 0 ends
C6_Witness ==
    /\ RegularResult
    /\ icon_number = 1
    /\ calculate_regular_icon(0).sheet_index = info.sheet_index
    /\ calculate_regular_icon(0).y = info.y
    /\ calculate_regular_icon(0).x_shiny + 40 = info.x_normal

\* C7: for every index >= 1451, calculate_position returns a result of
\* type 'egg' whose egg_index is index - 1442 above 1872 and index - 1451
\* otherwise, with column = egg_index mod 18, row = egg_index div 18,
\* x = column*30, y = row*32, sprite size (30, 32) and the one asset
\* reference; 1451 gives egg_index 0 at (0, 0), 1873 gives 431, column 17,
\* row 23.
C7_EggPosition ==
    (called = "calculate_position" /\ icon_number >= 1451) =>
        /\ info.type = "egg"
        /\ info.egg_index = IF icon_number > 1872
                            THEN icon_number - 1442
                            ELSE icon_number - 1451
        /\ info.column = info.egg_index % 18
        /\ info.row = info.egg_index \div 18
        /\ info.x = info.column * 30
        /\ info.y = info.row * 32
        /\ info.sprite_size = <<30, 32>>
        /\ info.sheet_asset_id = "13039987315"
        /\ icon_number = 1451 =>
            /\ info.egg_index = 0
            /\ info.column = 0
            /\ info.row = 0
            /\ info.x = 0
            /\ info.y = 0
        /\ icon_number = 1873 =>
            /\ info.egg_index = 431
            /\ info.column = 17
            /\ info.row = 23

C7_Witness ==
    /\ called = "calculate_position"
    /\ icon_number = 1873
    /\ info.type = "egg"
    /\ info.egg_index = 431
    /\ info.x = 510
    /\ info.y = 736

\* C8 as stated: some index a in 1451..1872 and some index b > 1872 get
\* the same egg_index from calculate_egg_icon.
C8_AsStated ==
    EggResult =>
        \E a \in 1451..1872 : \E b \in 1873..MaxIndex :
            calculate_egg_icon(a).egg_index = calculate_egg_icon(b).egg_index

\* C8 (amended): the two numbering regimes produce disjoint local-index
\* ranges: an index in 1451..1872 gets an egg_index in 0..421, an index
\* above 1872 gets an egg_index of at least 431, and no index on the other
\* side of 1872 gets the same egg_index.
C8_RegimesDisjoint ==
    EggResult =>
        /\ icon_number <= 1872 =>
            /\ info.egg_index \in 0..421
            /\ \A b \in 1873..MaxIndex :
                calculate_egg_icon(b).egg_index # info.egg_index
        /\ icon_number > 1872 =>
            /\ info.egg_index >= 431
            /\ \A a \in 1451..1872 :
                calculate_egg_icon(a).egg_index # info.egg_index

\* the last index of the lower regime
C8_Witness ==
    /\ called = "calculate_egg_icon"
    /\ icon_number = 1872
    /\ info.egg_index = 421
    /\ calculate_egg_icon(1873).egg_index = 431

\* C9: calculate_regular_icon returns a result for every integer index;
\* its sheet_asset_id is 'Unknown' when the sheet number has no entry in
\* the 6-entry table and the table's entry when it has one, '0' for
\* sheet 6.
C9_SheetLookup ==
    called = "calculate_regular_icon" =>
        /\ info.type = "regular"
        /\ Cardinality(DOMAIN sprite_sheets) = 6
        /\ info.sheet_index \notin DOMAIN sprite_sheets
               => info.sheet_asset_id = "Unknown"
        /\ info.sheet_index \in DOMAIN sprite_sheets
               => info.sheet_asset_id = sprite_sheets[info.sheet_index]
        /\ info.sheet_index = 6 => info.sheet_asset_id = "0"

\* an index outside 0..1450 that lands on the unassigned sixth sheet
C9_Witness ==
    /\ called = "calculate_regular_icon"
    /\ icon_number > 1450
    /\ info.sheet_index = 6
    /\ info.sheet_asset_id = "0"

(***************************************************************************)
(* Properties of the validator (checked under SpecValidator).              *)
(***************************************************************************)

WidthErrors == SelectSeq(errors, LAMBDA e : e[1] = "Width ")
HeightErrors == SelectSeq(errors, LAMBDA e : e[1] = "Height ")

\* C10: check_dimensions records exactly one width error iff the width is
\* not an allowed width of the declared sheet type (1680 or 880 for
\* 'regular', 540 for 'egg'), exactly one height error iff the height is not
\* a multiple of the cell height (30 for 'regular', 32 for 'egg'), and
\* nothing else; 1680x750 regular has no error, 1681x750 regular exactly
\* one, a width error.
C10_DimensionErrors ==
    (vpc = "check_dimensions" /\ sheet_type \in {"regular", "egg"}) =>
        LET width == image.size[1]
            height == image.size[2]
            allowed == IF sheet_type = "regular" THEN {1680, 880} ELSE {540}
            cell == IF sheet_type = "regular" THEN 30 ELSE 32
        IN  /\ Len(WidthErrors) = IF width \in allowed THEN 0 ELSE 1
            /\ Len(HeightErrors) = IF height % cell = 0 THEN 0 ELSE 1
            /\ Len(errors) = Len(WidthErrors) + Len(HeightErrors)
            /\ warnings = <<>>
            /\ (sheet_type = "regular" /\ image.size = <<1680, 750>>)
                   => errors = <<>>
            /\ (sheet_type = "regular" /\ image.size = <<1681, 750>>)
                   => (Len(errors) = 1 /\ Len(WidthErrors) = 1)

C10_Witness ==
    /\ vpc = "check_dimensions"
    /\ sheet_type = "regular"
    /\ image.size = <<1681, 750>>
    /\ Len(errors) = 1
    /\ errors[1][2] = 1681

\* C11: validate() returns True iff the errors list is empty after all
\* checks have run; neither the warnings nor the empty cells found change
\* the value.
C11_PassIffNoErrors ==
    vpc = "returned" =>
        /\ Len(result) = 1
        /\ result[1] <=> (Len(errors) = 0)

\* a sheet that passes although it has a warning and empty cells
C11_Witness ==
    /\ vpc = "returned"
    /\ result = <<TRUE>>
    /\ Len(warnings) > 0
    /\ Len(empty_cells) > 0
    /\ calls[Len(calls)] = "print_results"

AllChecks ==
    <<"check_dimensions", "check_transparency", "check_mode",
      "check_sprites", "print_results">>

\* C12: every run of validate() calls the four checks in their order,
\* whatever errors the earlier ones found, and print_results once after
\* them; an image whose width and height are both invalid ends with both
\* errors on the list.
C12_ErrorsCollected ==
    /\ Len(calls) <= Len(AllChecks)
    /\ calls = SubSeq(AllChecks, 1, Len(calls))
    /\ vpc = "returned" =>
        /\ calls = AllChecks
        /\ LET width == image.size[1]
               height == image.size[2]
               badRegular == /\ sheet_type = "regular"
                             /\ width \notin {1680, 880}
                             /\ height % 30 # 0
               badEgg == /\ sheet_type = "egg"
                         /\ width # 540
                         /\ height % 32 # 0
           IN  (badRegular \/ badEgg) =>
                   /\ Len(errors) = 2
                   /\ Len(WidthErrors) = 1
                   /\ Len(HeightErrors) = 1

\* a run over a sheet with a wrong width and a wrong height
C12_Witness ==
    /\ vpc = "returned"
    /\ sheet_type = "regular"
    /\ image.size = <<1681, 751>>
    /\ Len(errors) = 2
    /\ calls = AllChecks
    /\ result = <<FALSE>>

\* C13 as stated: whatever the mode of the image, _is_sprite_empty returns
\* True for a cell all of whose pixels have alpha 0 and False for a cell all
\* of whose pixels are opaque.
C13_AsStated ==
    \A i \in DOMAIN checked :
        LET c == checked[i].cell
        IN  /\ ~HasVisiblePixel(image, c.x, c.y, c.w, c.h) => checked[i].empty
            /\ AllOpaque(image, c.x, c.y, c.w, c.h) => ~checked[i].empty

\* the sprites check_sprites has to test on a sheet of the given size
ExpectedBoxes(type, width, height) ==
    IF type = "regular"
    THEN {<<column * 80 + dx, row * 30, 40, 30>> :
              column \in 0..((width \div 80) - 1),
              row \in 0..((height \div 30) - 1),
              dx \in {0, 40}}
    ELSE IF type = "egg"
    THEN {<<column * 30, row * 32, 30, 32>> :
              column \in 0..((width \div 30) - 1),
              row \in 0..((height \div 32) - 1)}
    ELSE {}

CheckedBoxes ==
    {<<checked[i].cell.x, checked[i].cell.y,
       checked[i].cell.w, checked[i].cell.h>> : i \in DOMAIN checked}

\* C14: check_sprites tests every sprite implied by the size of the image
\* exactly once (normal and shiny half of every cell of a regular sheet,
\* every cell of an egg sheet) and leaves the errors list as it was,
\* whatever number of cells is empty.
C14_EveryCellOnce ==
    [][check_sprites =>
        /\ errors' = errors
        /\ CheckedBoxes' =
               ExpectedBoxes(sheet_type, image.size[1], image.size[2])
        /\ Len(checked') = Cardinality(CheckedBoxes')]_vars

\* a full sheet of 25 rows with nothing drawn on it: 1050 sprites, all empty
C14_Witness ==
    /\ vpc = "check_sprites"
    /\ sheet_type = "regular"
    /\ image.size = <<1680, 750>>
    /\ Len(checked) = 1050
    /\ Len(empty_cells) = 1050
    /\ errors = <<>>

(***************************************************************************)
(* Properties of the generator (checked under SpecGenerator).              *)
(***************************************************************************)

\* C15 as stated: on a generated full-width regular sheet, every cell
\* whose number n = row*21 + column (the validator's label) is <= 1450 is
\* the cell calculate_position(n) returns; on a generated egg sheet every
\* cell, numbered row*18 + column + 1451 by the validator, is the cell
\* calculate_position returns for that number; the number the generator
\* writes at the start of a row is the validator's number of its first cell.
C15_AsStated ==
    template.type \in {"regular", "egg"} =>
        LET cells == sprite_cells(template.type, template.size[1],
                                  template.size[2])
            cw == IF template.type = "regular" THEN 80 ELSE 30
            ch == IF template.type = "regular" THEN 30 ELSE 32
        IN  \A i \in DOMAIN cells :
                LET c == cells[i]
                    column == c.x \div cw
                    row == c.y \div ch
                    pos == calculate_position(c.num)
                IN  (template.type = "regular" => c.num <= 1450) =>
                        /\ pos.type = template.type
                        /\ pos.column = column
                        /\ pos.row = row
                        /\ column = 0 => template.row_numbers[row + 1] = c.num

\* C20: for every rows >= 1, create_regular_template makes an RGBA image of
\* 1680 x rows*30 pixels and create_egg_template one of 540 x rows*32
\* pixels, on which check_dimensions for the matching sheet type finds no
\* error.
C20_TemplatesConform ==
    /\ template.type = "regular" =>
        /\ template.size = <<1680, rows_arg * 30>>
        /\ template.mode = "RGBA"
    /\ template.type = "egg" =>
        /\ template.size = <<540, rows_arg * 32>>
        /\ template.mode = "RGBA"
    /\ template.type \in {"regular", "egg"} =>
        dimension_errors(template.type, template.size[1], template.size[2])
            = <<>>

\* the default template of 25 rows
C20_Witness ==
    /\ template.type = "regular"
    /\ rows_arg = 25
    /\ template.size = <<1680, 750>>
    /\ dimension_errors("regular", 1680, 750) = <<>>

(***************************************************************************)
(* Properties of the command lines (checked under SpecCommandLine).        *)
(***************************************************************************)

\* C16 as stated: validate_sheet ends with exit code 0 exactly when
\* validate() returned True, and a run of validate_sheet, of
\* prepare_custom_icon single or of prepare_custom_icon batch whose input
\* path does not exist reports it and ends with a non-zero exit code.
C16_AsStated ==
    cpc = "exited" =>
        /\ tool = "validate_sheet" =>
               (exit_code = <<0>> <=> result = <<TRUE>>)
        /\ (/\ path.kind = "missing"
            /\ \/ tool = "validate_sheet" /\ Len(argv) >= 1
               \/ tool = "prepare_custom_icon"
                  /\ argv \in {<<"single", "path">>, <<"batch", "path">>})
           => /\ reported # <<>>
              /\ exit_code # <<0>>

\* C17 as stated: when batch_prepare has ended, every file of png_files
\* has been handed to prepare_icon once, in the order of the list, and no
\* exception has left batch_prepare.
C17_AsStated ==
    (/\ tool = "prepare_custom_icon"
     /\ cpc = "exited"
     /\ path.kind = "directory"
     /\ path.png_files # <<>>)
    => /\ attempted = [i \in 1..Len(path.png_files) |-> i]
       /\ exception = <<>>

(***************************************************************************)
(* Properties of the lookup table (checked under SpecLookupTable).         *)
(***************************************************************************)

\* C18 as stated: after add_custom_icon has inserted (key, reference,
\* comment) into a well-formed table text, parse_existing_icons of the
\* resulting text maps the key to exactly that reference and comment in
\* the normal table and, when a shiny id was given, in the shiny table.
C18_AsStated ==
    (apc = "parsed" /\ add_result = <<TRUE>>) =>
        /\ icon_key \in DOMAIN normal_icons
        /\ normal_icons[icon_key] =
               <<(<<"rbxassetid://", normal_asset_id>>), pokemon_name>>
        /\ shiny_asset_id # <<>> =>
            /\ icon_key \in DOMAIN shiny_icons
            /\ shiny_icons[icon_key] =
                   <<(<<"rbxassetid://", shiny_asset_id[1]>>), pokemon_name>>

\* the text of a block, between its opening and its closing brace
BlockBody(content, open) == search_block(content, open)[1]

\* the text outside the two blocks
Outside(content) ==
    LET n1 == FirstOf(content, "normal{", 1, Len(content))
        n2 == FirstOf(content, "}", n1 + 1, Len(content))
        s1 == FirstOf(content, "shiny{", 1, Len(content))
        s2 == FirstOf(content, "}", s1 + 1, Len(content))
    IN  <<SubSeq(content, 1, n1), SubSeq(content, n2, s1),
          SubSeq(content, s2, Len(content))>>

\* C19 as stated: after a successful add the new entry is the last entry
\* of customNormalIcons (and of customShinyIcons when a shiny id is given)
\* behind the entries the block had, in their order; customShinyIcons is
\* unchanged when no shiny id is given; the text outside the two blocks is
\* unchanged.
C19_AsStated ==
    (apc = "added" /\ add_result = <<TRUE>>) =>
        LET NewEntry(id) == [key |-> icon_key,
                             asset_id |-> <<"rbxassetid://", id>>,
                             comment |-> pokemon_name]
            Entries(c, open) == findall_entries(BlockBody(c, open), 1)
        IN  /\ Entries(lua_file, "normal{") =
                   Append(Entries(before, "normal{"),
                          NewEntry(normal_asset_id))
            /\ IF shiny_asset_id # <<>>
               THEN Entries(lua_file, "shiny{") =
                        Append(Entries(before, "shiny{"),
                               NewEntry(shiny_asset_id[1]))
               ELSE BlockBody(lua_file, "shiny{") = BlockBody(before, "shiny{")
            /\ Outside(lua_file) = Outside(before)

(***************************************************************************)
(* Further properties of the calculator (checked under SpecCalculator).    *)
(***************************************************************************)

\* the sheet-local cell of a result
SheetCell(r) == <<r.sheet_index, r.adjusted_column, r.adjusted_row>>

\* C28: for every index in 0..1450 the result of calculate_regular_icon
\* has 0 <= adjusted_column <= 10 and 0 <= adjusted_row <= 32, and no other
\* index in 0..1450 has the same (sheet_index, adjusted_column,
\* adjusted_row).
C28_SheetCellUnique ==
    (RegularResult /\ icon_number \in 0..1450) =>
        /\ info.adjusted_column \in 0..10
        /\ info.adjusted_row \in 0..32
        /\ \A j \in 0..1450 :
               j # icon_number =>
                   SheetCell(calculate_regular_icon(j)) # SheetCell(info)

\* the last regular icon, on the fifth sheet
C28_Witness ==
    /\ called = "calculate_regular_icon"
    /\ icon_number = 1450
    /\ SheetCell(info) = <<5, 1, 11>>

\* C29: whatever integer calculate_regular_icon is given, negative or above
\* 1450 included, sheet_index is in 1..6 and sheet_asset_id is an entry of
\* the table, never 'Unknown'.
C29_SheetAlwaysKnown ==
    called = "calculate_regular_icon" =>
        /\ info.sheet_index \in 1..6
        /\ info.sheet_index \in DOMAIN sprite_sheets
        /\ info.sheet_asset_id # "Unknown"

\* a negative index: Python's floor division puts it on row -1, sheet 2
C29_Witness ==
    /\ called = "calculate_regular_icon"
    /\ icon_number = 0 - 1
    /\ info.column = 20
    /\ info.row = 0 - 1
    /\ info.sheet_index = 2
    /\ info.sheet_asset_id = "17134749969"

(***************************************************************************)
(* Properties of the export (checked under SpecExport).                    *)
(***************************************************************************)

\* C27 as stated: export_to_csv of a non-empty list made by
\* batch_calculate or by calculate_position ends without error and has
\* written the header and one row per result.
C27_AsStated ==
    (xpc \in {"exported", "ValueError"} /\ results # <<>>) =>
        /\ xpc = "exported"
        /\ Len(csv_file) = 1 + Len(results)

(***************************************************************************)
(* Further properties of the lookup table (checked under SpecLookupTable). *)
(***************************************************************************)

\* the key of the add is a key of customNormalIcons as parsed before it
KeyPresent == icon_key \in DOMAIN parse_existing_icons(before)[1]

\* C24: when the key is already in customNormalIcons and the answer to
\* the overwrite prompt is not 'y', add_custom_icon returns False and the
\* file is as it was.
C24_CancelKeepsFile ==
    (apc = "added" /\ KeyPresent /\ strip_lower(response) # "y") =>
        /\ add_result = <<FALSE>>
        /\ lua_file = before

\* the prompt is answered with an empty line
C24_Witness ==
    /\ apc = "added"
    /\ KeyPresent
    /\ response = ""
    /\ add_result = <<FALSE>>
    /\ lua_file = before

\* the entries of a block that carry the key k
EntriesFor(content, open, k) ==
    SelectSeq(findall_entries(BlockBody(content, open), 1),
              LAMBDA en : en.key = k)

\* C25 as stated: after a confirmed overwrite customNormalIcons holds
\* exactly one entry for the key, the new one, and after an add no key
\* appears more than once in a block.
C25_AsStated ==
    (apc = "added" /\ add_result = <<TRUE>>) =>
        /\ KeyPresent =>
               EntriesFor(lua_file, "normal{", icon_key) =
                   <<[key |-> icon_key,
                      asset_id |-> <<"rbxassetid://", normal_asset_id>>,
                      comment |-> pokemon_name]>>
        /\ \A open \in {"normal{", "shiny{"} :
               \A k \in 1184..(1186 + 2 * MaxEntries) :
                   Len(EntriesFor(lua_file, open, k)) <= 1

\* C26: find_next_available_slot returns the smallest s >= preferred_start
\* that is no key of normal_icons: s is unused, every integer of
\* preferred_start..s-1 is used, and the keys below preferred_start do not
\* matter.
C26_NextSlot ==
    apc = "found" =>
        LET s == slot[1]
            above == {k \in DOMAIN normal_icons : k >= preferred_start}
        IN  /\ s >= preferred_start
            /\ s \notin DOMAIN normal_icons
            /\ \A k \in preferred_start..(s - 1) : k \in DOMAIN normal_icons
            /\ s = find_next_available_slot(
                       [k \in above |-> normal_icons[k]], preferred_start)

\* three slots in a row are taken and one key lies below the start
C26_Witness ==
    /\ apc = "found"
    /\ preferred_start = 1187
    /\ DOMAIN normal_icons = {1186, 1187, 1188}
    /\ slot = <<1189>>

(***************************************************************************)
(* The images prepare_custom_icon.py writes                                *)
(***************************************************************************)

\* the file the k-th saved image was made of
InputOf(k) ==
    IF path.kind = "directory" THEN path.png_files[prepared_files[k]]
    ELSE path

\* prepare_icon hands the file f to _apply_fixes: a check has left an issue
\* or a warning
Fixed(f) ==
    LET q == prepare_icon(NewPreparer, f, TRUE).preparer
    IN  q.issues # <<>> \/ q.warnings # <<>>

\* C21 as stated: every image _apply_fixes returns is target_width x
\* target_height (80 x 60), also when its padding step has run.
C21_AsStated ==
    \A k \in 1..Len(saved) :
        Fixed(InputOf(k)) =>
            saved[k].size = <<target_width, target_height>>

\* the sprite of img lies closer than min_padding to an edge of img
TouchesEdge(img) ==
    /\ img.bbox # <<>>
    /\ \/ img.bbox[1] < min_padding
       \/ img.bbox[2] < min_padding
       \/ img.bbox[3] > img.size[1] - min_padding
       \/ img.bbox[4] > img.size[2] - min_padding

\* the canvas of f when the padding step of _apply_fixes is reached
CanvasOf(f) == resize_fixes(convert_fixes(NewPreparer, f), loaded(f)).img

\* C22 as stated: the padding step runs exactly when the sprite lies closer
\* than min_padding to an edge of the current canvas, and after it ran the
\* sprite keeps min_padding pixels from every edge of the image returned.
C22_AsStated ==
    (path.kind = "image" /\ saved # <<>> /\ Fixed(path)) =>
        LET padded == \E n \in DOMAIN preparer.fixes_applied :
                          preparer.fixes_applied[n] = "Added padding"
        IN  /\ padded <=> TouchesEdge(CanvasOf(path))
            /\ padded => ~TouchesEdge(saved[1])

\* C23: in batch_prepare the preparer's issues, warnings and fixes_applied
\* are empty when a file is taken up, so Ready and Notes of a tracking row
\* are those of a fresh preparer on that file alone, and the tracking rows
\* are the prepared files, one row each, in the order of processing.
C23_FreshPerFile ==
    /\ cpc = "loop" => preparer = NewPreparer
    /\ \A k \in 1..Len(icon_info) :
           LET i == icon_info[k].File
               q == prepare_icon(NewPreparer, path.png_files[i], TRUE).preparer
           IN  /\ icon_info[k].Ready = (q.issues = <<>>)
               /\ icon_info[k].Notes =
                      SubSeq(q.issues, 1,
                             IF Len(q.issues) < 2 THEN Len(q.issues) ELSE 2)
    /\ exception = <<>> =>
           /\ Len(icon_info) = Len(prepared_files)
           /\ \A k \in 1..Len(icon_info) :
                  icon_info[k].File = prepared_files[k]
    /\ \A k \in 1..(Len(prepared_files) - 1) :
           prepared_files[k] < prepared_files[k + 1]

\* a file with an issue is followed by a clean file: the second row is
\* ready although the first is not
C23_Witness ==
    /\ cpc = "loop"
    /\ Len(icon_info) = 2
    /\ ~icon_info[1].Ready
    /\ icon_info[1].Notes # <<>>
    /\ icon_info[2].Ready
    /\ icon_info[2].Notes = <<>>
    /\ preparer = NewPreparer

====
